---------------------------- MODULE Spec2Model ----------------------------
(***************************************************************************)
(* Model of the build-time indexing pipeline of docusaurus-search-local:   *)
(* the plugin constructor (language / tokenizer wiring) and postBuild      *)
(* (route classification, concurrent page reads with id allocation,        *)
(* grouping by docusaurus tag, one index and one artifact per tag).        *)
(*                                                                         *)
(* JavaScript strings that the code inspects character by character        *)
(* (routes, base paths, id references) are sequences of one-character      *)
(* strings.  Strings that are only compared or used as keys (plugin names, *)
(* language codes, docusaurus tags, content types) are TLA+ strings.       *)
(***************************************************************************)
EXTENDS Integers, Sequences, FiniteSets, TLC

VARIABLES
    options,        \* the plugin options handed to the constructor
    language,       \* the constructor's `language` local (unwrapped if a 1-list)
    routesPaths,    \* postBuild argument: the produced urls, in order
    baseUrl,        \* postBuild argument
    trailingSlash,  \* postBuild argument: siteConfig.trailingSlash
    plugins,        \* postBuild argument: the loaded plugins
    disk,           \* the rendered html files: file -> parsed page
    pc,             \* where the plugin is in its life cycle
    data,           \* classified routes with their html file
    reads,          \* per entry of data: the state of its readFileAsync
    results,        \* per entry of data: the documents its callback returned
    nextDocId,      \* the shared id counter
    documents,      \* the flattened document list
    documentsByDocusaurusTag, \* the groups, in key insertion order
    writes,         \* per group: the state of its writeFileAsync
    written         \* the artifact files written so far, in completion order

vars == << options, language, routesPaths, baseUrl, trailingSlash, plugins,
           pc, data,
           disk, reads, results, nextDocId, documents,
           documentsByDocusaurusTag, writes, written >>

----------------------------------------------------------------------------
(* Bounds of the model.                                                    *)

MaxRoutes == 2          \* routes of a pipeline run
MaxTagRoutes == 3       \* routes of a run that varies the tags only
MaxSections == 2        \* sections of one page
MaxClassifyRoutes == 1  \* routes of a classification run
MaxDepth == 2           \* indexDocSidebarParentCategories

----------------------------------------------------------------------------
(* JavaScript string primitives.                                           *)

startsWith(s, p) == Len(p) <= Len(s) /\ SubSeq(s, 1, Len(p)) = p

endsWith(s, p) == Len(p) <= Len(s) /\ SubSeq(s, Len(s) - Len(p) + 1, Len(s)) = p

\* s.substring(n) for 0 <= n
substring(s, n) == IF n >= Len(s) THEN << >> ELSE SubSeq(s, n + 1, Len(s))

SLASH == << "/" >>

Digit(d) == CASE d = 0 -> "0" [] d = 1 -> "1" [] d = 2 -> "2" [] d = 3 -> "3"
              [] d = 4 -> "4" [] d = 5 -> "5" [] d = 6 -> "6" [] d = 7 -> "7"
              [] d = 8 -> "8" [] d = 9 -> "9"

\* Number.prototype.toString for a natural number: its decimal digits
RECURSIVE toString(_)
toString(n) == IF n < 10 THEN << Digit(n) >>
               ELSE toString(n \div 10) \o << Digit(n % 10) >>

\* the literals the classifier compares routes with
ERROR_PAGE == << "4", "0", "4", ".", "h", "t", "m", "l" >>
DOCUSAURUS == << "_", "_", "d", "o", "c", "u", "s", "a", "u", "r", "u", "s" >>

----------------------------------------------------------------------------
(* Helpers of the module (part_000 lines 28-54).                           *)

\* a variant that compares characters only, without the "/" after the prefix
urlMatchesPrefix_NoSegment(url, prefix) ==
    IF startsWith(prefix, SLASH) THEN "throw"
    ELSE IF endsWith(prefix, SLASH) THEN "throw"
    ELSE IF prefix = << >> \/ url = prefix \/ startsWith(url, prefix)
         THEN "true" ELSE "false"

\* "throw" stands for the Error the function raises on a malformed prefix
urlMatchesPrefix(url, prefix) ==
    IF startsWith(prefix, SLASH) THEN "throw"
    ELSE IF endsWith(prefix, SLASH) THEN "throw"
    ELSE IF prefix = << >> \/ url = prefix \/ startsWith(url, prefix \o SLASH)
         THEN "true" ELSE "false"

trimLeadingSlash(path) ==
    IF path = << >> \/ ~startsWith(path, SLASH) THEN path ELSE Tail(path)

trimTrailingSlash(path) ==
    IF path = << >> \/ ~endsWith(path, SLASH) THEN path
    ELSE SubSeq(path, 1, Len(path) - 1)

----------------------------------------------------------------------------
(* The plugin constructor (part_000 lines 160-272).                        *)
(* A language option is [isArray, codes]: a single code "ja" is            *)
(* [isArray |-> FALSE, codes |-> <<"ja">>], a list keeps its codes.        *)

Single(code) == [isArray |-> FALSE, codes |-> << code >>]
List(codes) == [isArray |-> TRUE, codes |-> codes]

\* lines 191-193: a one-element list is replaced by its element
unwrapLanguage(lang) ==
    IF lang.isArray /\ Len(lang.codes) = 1 THEN Single(lang.codes[1]) ELSE lang

\* language === code, for the (unwrapped) language local
languageIs(lang, code) == ~lang.isArray /\ lang.codes = << code >>

\* lines 205-225: handleLangCode throws on the deprecated code
handleLangCodeThrows(code) == code = "jp"

\* lines 227-241: the codes handed to handleLangCode
handledCodes(lang) ==
    IF languageIs(lang, "en") THEN {}
    ELSE IF lang.isArray
         THEN {lang.codes[i] : i \in {j \in DOMAIN lang.codes : lang.codes[j] # "en"}}
         ELSE {lang.codes[1]}

\* lines 242-257: the separator check, reached only in the ja / th branch
separatorRejected(lang, separator) ==
    /\ ~languageIs(lang, "zh")
    /\ languageIs(lang, "ja") \/ languageIs(lang, "th")
    /\ separator

\* TRUE iff cmfcmfDocusaurusSearchLocal(context, options) throws
constructorThrows(opts) ==
    LET lang == unwrapLanguage(opts.language) IN
    \/ \E code \in handledCodes(lang) : handleLangCodeThrows(code)
    \/ separatorRejected(lang, opts.tokenizerSeparator)

\* lines 242-271: which tokenize function the generated module exports
generatedTokenizer(lang, separator) ==
    IF languageIs(lang, "zh") THEN "split"
    ELSE IF languageIs(lang, "ja") \/ languageIs(lang, "th") THEN "language"
    ELSE "lunr"

----------------------------------------------------------------------------
(* Route classification (part_000 lines 325-474).                          *)

DOCS_PLUGIN == "docusaurus-plugin-content-docs"
BLOG_PLUGIN == "docusaurus-plugin-content-blog"
PAGES_PLUGIN == "docusaurus-plugin-content-pages"

\* lines 325-333: new Map(plugins.filter(name).map([id, plugin])).values():
\* one plugin per id, at the place of the id's first entry, the last entry's value
RECURSIVE mapValues(_, _)
mapValues(entries, seen) ==
    IF entries = << >> THEN << >>
    ELSE LET e == Head(entries) IN
         IF e.id \in seen THEN mapValues(Tail(entries), seen)
         ELSE LET same == {i \in DOMAIN entries : entries[i].id = e.id}
                  last == CHOOSE i \in same : \A j \in same : j <= i
              IN << entries[last] >> \o mapValues(Tail(entries), seen \cup {e.id})

buildPluginMap(ps, name) ==
    LET named(p) == p.name = name IN mapValues(SelectSeq(ps, named), {})

\* a || b || c over urlMatchesPrefix results and plain booleans:
\* left to right, stopping at the first "true" or "throw"
RECURSIVE orElse(_)
orElse(rs) == IF rs = << >> THEN "false"
              ELSE IF Head(rs) \in {"true", "throw"} THEN Head(rs)
              ELSE orElse(Tail(rs))

bool(b) == IF b THEN "true" ELSE "false"

basePathOf(p) == trimLeadingSlash(trimTrailingSlash(p.routeBasePath))
tagsPathOf(p) == trimLeadingSlash(trimTrailingSlash(p.tagsBasePath))

\* Each loop returns "throw", "skip" (return []), the content type, or
\* "next" (no plugin of the type matched: fall through to the next type).

\* lines 375-403
RECURSIVE docsLoop(_, _)
docsLoop(route, ps) ==
    IF ps = << >> THEN "next"
    ELSE LET docsBasePath == basePathOf(Head(ps))
             docsTagsPath == tagsPathOf(Head(ps))
             m == urlMatchesPrefix(route, docsBasePath)
         IN IF m = "throw" THEN "throw"
            ELSE IF m = "false" THEN docsLoop(route, Tail(ps))
            ELSE LET x == orElse(<<
                        urlMatchesPrefix(route,
                            trimLeadingSlash(docsBasePath \o SLASH \o docsTagsPath)),
                        urlMatchesPrefix(route,
                            trimLeadingSlash(docsBasePath \o SLASH \o DOCUSAURUS)) >>)
                 IN IF x = "throw" THEN "throw"
                    ELSE IF x = "true" THEN "skip" ELSE "docs"

\* lines 406-435
RECURSIVE blogLoop(_, _)
blogLoop(route, ps) ==
    IF ps = << >> THEN "next"
    ELSE LET blogBasePath == basePathOf(Head(ps))
             blogTagsPath == tagsPathOf(Head(ps))
             m == urlMatchesPrefix(route, blogBasePath)
         IN IF m = "throw" THEN "throw"
            ELSE IF m = "false" THEN blogLoop(route, Tail(ps))
            ELSE LET x == orElse(<<
                        bool(route = blogBasePath),
                        urlMatchesPrefix(route,
                            trimLeadingSlash(blogBasePath \o SLASH \o blogTagsPath)),
                        urlMatchesPrefix(route,
                            trimLeadingSlash(blogBasePath \o SLASH \o DOCUSAURUS)) >>)
                 IN IF x = "throw" THEN "throw"
                    ELSE IF x = "true" THEN "skip" ELSE "blog"

\* lines 438-459
RECURSIVE pagesLoop(_, _)
pagesLoop(route, ps) ==
    IF ps = << >> THEN "next"
    ELSE LET pagesBasePath == basePathOf(Head(ps))
             m == urlMatchesPrefix(route, pagesBasePath)
         IN IF m = "throw" THEN "throw"
            ELSE IF m = "false" THEN pagesLoop(route, Tail(ps))
            ELSE LET x == urlMatchesPrefix(route,
                            trimLeadingSlash(pagesBasePath \o SLASH \o DOCUSAURUS))
                 IN IF x = "throw" THEN "throw"
                    ELSE IF x = "true" THEN "skip" ELSE "page"

\* lines 362-463: the flatMap callback for one url
classify(url, base, opts, ps) ==
    LET route == substring(url, Len(base))
        d == IF opts.indexDocs
             THEN docsLoop(route, buildPluginMap(ps, DOCS_PLUGIN)) ELSE "next"
        b == IF opts.indexBlog
             THEN blogLoop(route, buildPluginMap(ps, BLOG_PLUGIN)) ELSE "next"
        p == IF opts.indexPages
             THEN pagesLoop(route, buildPluginMap(ps, PAGES_PLUGIN)) ELSE "next"
    IN IF ~startsWith(url, base) THEN "throw"
       ELSE IF route = ERROR_PAGE THEN "skip"
       ELSE IF d # "next" THEN d
       ELSE IF b # "next" THEN b
       ELSE IF p # "next" THEN p
       ELSE "skip"

OUT_DIR == << "b", "u", "i", "l", "d" >>
INDEX == << "i", "n", "d", "e", "x" >>
DOT_HTML == << ".", "h", "t", "m", "l" >>

\* path.join: the non-empty segments, joined by "/"
RECURSIVE pathJoin(_)
pathJoin(segs) ==
    IF segs = << >> THEN << >>
    ELSE IF Head(segs) = << >> THEN pathJoin(Tail(segs))
    ELSE LET rest == pathJoin(Tail(segs)) IN
         IF rest = << >> THEN trimTrailingSlash(Head(segs))
         ELSE trimTrailingSlash(Head(segs)) \o SLASH \o trimLeadingSlash(rest)

\* lines 464-474
fileOf(route, trailing) ==
    IF trailing = "false"
    THEN pathJoin(<< OUT_DIR, (IF route = << >> THEN INDEX ELSE route) \o DOT_HTML >>)
    ELSE pathJoin(<< OUT_DIR, route, INDEX \o DOT_HTML >>)

\* lines 345-359: an enabled content type without a plugin
missingPlugin(opts, ps) ==
    \/ opts.indexDocs /\ buildPluginMap(ps, DOCS_PLUGIN) = << >>
    \/ opts.indexBlog /\ buildPluginMap(ps, BLOG_PLUGIN) = << >>
    \/ opts.indexPages /\ buildPluginMap(ps, PAGES_PLUGIN) = << >>

\* lines 361-474: routesPaths.flatMap(...).map(...), given that no url throws
RECURSIVE classifyAll(_, _, _, _, _)
classifyAll(urls, base, trailing, opts, ps) ==
    IF urls = << >> THEN << >>
    ELSE LET url == Head(urls)
             c == classify(url, base, opts, ps)
             route == substring(url, Len(base))
             rest == classifyAll(Tail(urls), base, trailing, opts, ps)
         IN IF c \in {"docs", "blog", "page"}
            THEN << [file |-> fileOf(route, trailing), url |-> url, type |-> c] >> \o rest
            ELSE rest

classifyThrows_FirstOnly(urls, base, opts, ps) ==
    urls # << >> /\ classify(urls[1], base, opts, ps) = "throw"

\* lines 361-463: the flatMap callback throws for some url
classifyThrows(urls, base, opts, ps) ==
    \E i \in DOMAIN urls : classify(urls[i], base, opts, ps) = "throw"

----------------------------------------------------------------------------
(* Document assembly (part_000 lines 478-503).                             *)
(* A page on disk is the html as the external extractors see it: its       *)
(* ordered sections and its docusaurus tag.                                *)

\* html2text(html, type, url).sections (./parse, outside this module)
html2text(html) == html.sections

\* html2text(html, type, url).pageTitle
pageTitleOf(html) == html.pageTitle

\* html2text(html, type, url).docSidebarParentCategories: the names from the
\* root to the leaf, or undefined
docSidebarParentCategoriesOf(html) == html.docSidebarParentCategories

\* getDocusaurusTag(html) (./parse, outside this module)
getDocusaurusTag(html) == html.docusaurusTag

\* a variant that reads the counter without advancing it per section
sectionsToDocuments_SharedId(entry, html, next) ==
    LET sections == html2text(html) IN
    [k \in 1..Len(sections) |->
        [id |-> next,
         pageRoute |-> entry.url,
         sectionRoute |-> entry.url \o sections[k].hash,
         pageTitle |-> pageTitleOf(html),
         docusaurusTag |-> getDocusaurusTag(html),
         docSidebarParentCategories |-> docSidebarParentCategoriesOf(html),
         type |-> entry.type]]

\* a variant that numbers the sections of a page from the last to the first
sectionsToDocuments_Reversed(entry, html, next) ==
    LET sections == html2text(html) IN
    [k \in 1..Len(sections) |->
        [id |-> next + Len(sections) - k,
         pageRoute |-> entry.url,
         sectionRoute |-> entry.url \o sections[k].hash,
         pageTitle |-> pageTitleOf(html),
         docusaurusTag |-> getDocusaurusTag(html),
         docSidebarParentCategories |-> docSidebarParentCategoriesOf(html),
         type |-> entry.type]]

\* lines 489-500: sections.map(section => ({id: nextDocId++, ...})), the
\* counter standing at `next` when the callback resumes
sectionsToDocuments(entry, html, next) ==
    LET sections == html2text(html) IN
    [k \in 1..Len(sections) |->
        [id |-> next + k - 1,
         pageRoute |-> entry.url,
         sectionRoute |-> entry.url \o sections[k].hash,
         pageTitle |-> pageTitleOf(html),
         docusaurusTag |-> getDocusaurusTag(html),
         docSidebarParentCategories |-> docSidebarParentCategoriesOf(html),
         type |-> entry.type]]

\* Array.prototype.flat over the per-route results, in the order of data
RECURSIVE flat(_)
flat(rs) == IF rs = << >> THEN << >> ELSE Head(rs) \o flat(Tail(rs))

----------------------------------------------------------------------------
(* Grouping, index build and serialization (part_000 lines 505-617).       *)

\* a variant that restarts the group instead of appending to it
groupStep_Overwrite(acc, doc) ==
    IF \E i \in DOMAIN acc : acc[i][1] = doc.docusaurusTag
    THEN [i \in DOMAIN acc |->
            IF acc[i][1] = doc.docusaurusTag
            THEN << acc[i][1], << doc >> >> ELSE acc[i]]
    ELSE Append(acc, << doc.docusaurusTag, << doc >> >>)

\* lines 506-510: one step of the reduce; acc is the object as its entries in
\* key insertion order, << tag, documents >>
groupStep(acc, doc) ==
    IF \E i \in DOMAIN acc : acc[i][1] = doc.docusaurusTag
    THEN [i \in DOMAIN acc |->
            IF acc[i][1] = doc.docusaurusTag
            THEN << acc[i][1], Append(acc[i][2], doc) >> ELSE acc[i]]
    ELSE Append(acc, << doc.docusaurusTag, << doc >> >>)

\* lines 505-512: documents.reduce(..., {})
RECURSIVE reduce(_, _)
reduce(docs, acc) ==
    IF docs = << >> THEN acc ELSE reduce(Tail(docs), groupStep(acc, Head(docs)))

\* An optional value is Undefined or Defined(v).  A string built by join is
\* the sequence of its pieces, names and separators in turn; the empty
\* sequence is the empty string.
Undefined == [defined |-> FALSE]
Defined(v) == [defined |-> TRUE, value |-> v]

\* Array.prototype.reverse, on a copy
reverse(a) == [k \in 1..Len(a) |-> a[Len(a) - k + 1]]

\* Array.prototype.slice(0, n) for n >= 0
slice0(a, n) == SubSeq(a, 1, IF n < Len(a) THEN n ELSE Len(a))

\* Array.prototype.join(sep)
RECURSIVE join(_, _)
join(a, sep) ==
    IF a = << >> THEN << >>
    ELSE IF Len(a) = 1 THEN << a[1] >>
    ELSE << a[1], sep >> \o join(Tail(a), sep)

\* a variant that truncates before it reverses
sidebarParentCategoriesOf_SliceFirst(cats, depth) ==
    IF depth > 0 /\ cats.defined
    THEN Defined(join(reverse(slice0(cats.value, depth)), " "))
    ELSE Undefined

\* lines 558-567: the sidebarParentCategories field of a document
sidebarParentCategoriesOf(cats, depth) ==
    IF depth > 0 /\ cats.defined
    THEN Defined(join(slice0(reverse(cats.value), depth), " "))
    ELSE Undefined

\* lines 551-576: the forEach callback for one document: what that.add
\* registers, and the document as the callback leaves it (it reverses a
\* copy of the ancestor list, so the document is as before)
addToIndex(doc, depth) ==
    [entry |-> [id |-> toString(doc.id),
                sidebarParentCategories |->
                    sidebarParentCategoriesOf(doc.docSidebarParentCategories, depth)],
     doc |-> doc]

\* a variant that registers a document under its position in the group
buildIndex_ByPosition(docs) == [k \in DOMAIN docs |-> [id |-> toString(k)]]

\* lines 527-578: what that.add registers, in order
buildIndex(docs) ==
    [k \in DOMAIN docs |->
        addToIndex(docs[k], options.indexDocSidebarParentCategories).entry]

\* the documents after the index of their group is built
afterIndex(docs) ==
    [k \in DOMAIN docs |->
        addToIndex(docs[k], options.indexDocSidebarParentCategories).doc]

\* lines 592-603: the display title of a summary
fullTitle(doc, include) ==
    IF /\ include
       /\ doc.docSidebarParentCategories.defined
       /\ Len(doc.docSidebarParentCategories.value) > 0
    THEN join(doc.docSidebarParentCategories.value \o << doc.pageTitle >>, " > ")
    ELSE << doc.pageTitle >>

\* lines 583-613: the summaries of the artifact
summaries(docs) ==
    [k \in DOMAIN docs |->
        [id |-> docs[k].id,
         pageTitle |-> fullTitle(docs[k], options.includeParentCategoriesInPageTitle),
         sectionRoute |-> docs[k].sectionRoute,
         type |-> docs[k].type]]

\* a variant that writes every group to one file name
artifactOf_SingleFile(group) ==
    [file |-> << "search-index-", "default", ".json" >>,
     documents |-> summaries(afterIndex(group[2])),
     index |-> buildIndex(group[2])]

\* lines 580-617: the writeFileAsync call of one group
artifactOf(group) ==
    [file |-> << "search-index-", group[1], ".json" >>,
     documents |-> summaries(afterIndex(group[2])),
     index |-> buildIndex(group[2])]

----------------------------------------------------------------------------
(* Inputs.                                                                 *)

Tags == {"en", "fr"}

Section(k) == [hash |-> IF k = 1 THEN << >> ELSE << "#" >> \o toString(k)]

\* a page of n sections with the given tag and ancestor categories
PageWith(n, tag, cats) ==
    [pageTitle |-> "Title",
     sections |-> [k \in 1..n |-> Section(k)],
     docusaurusTag |-> tag,
     docSidebarParentCategories |-> cats]

Page(n, tag) == PageWith(n, tag, Undefined)

\* ancestor paths: none, empty, one name, three names
CategoryPaths ==
    { Undefined, Defined(<< >>), Defined(<< "Guides" >>),
      Defined(<< "Guides", "Setup", "Install" >>) }

DOCS == << "d", "o", "c", "s" >>
BLOG == << "b", "l", "o", "g" >>
TAGS == << "t", "a", "g", "s" >>

DocsPlugin(id, base) ==
    [name |-> DOCS_PLUGIN, id |-> id, routeBasePath |-> base, tagsBasePath |-> TAGS]
BlogPlugin(id, base) ==
    [name |-> BLOG_PLUGIN, id |-> id, routeBasePath |-> base, tagsBasePath |-> TAGS]
PagesPlugin(id, base) ==
    [name |-> PAGES_PLUGIN, id |-> id, routeBasePath |-> base, tagsBasePath |-> << >>]

\* the plugins of the classic preset: docs at /docs, blog at /blog, pages at /
DefaultPlugins ==
    << DocsPlugin("default", DOCS), BlogPlugin("default", BLOG),
       PagesPlugin("default", SLASH) >>

\* the option defaults of optionsSchema (lines 122-158)
DefaultOptions ==
    [indexDocs |-> TRUE, indexBlog |-> TRUE, indexPages |-> FALSE,
     language |-> Single("en"), tokenizerSeparator |-> FALSE,
     indexDocSidebarParentCategories |-> 0,
     includeParentCategoriesInPageTitle |-> FALSE]

\* the k-th url of a pipeline run: /docs/<k>
PipelineUrl(k) == SLASH \o DOCS \o SLASH \o toString(k)

FilesOf(urls, base, trailing) ==
    {fileOf(substring(urls[i], Len(base)), trailing) : i \in DOMAIN urls}

\* runs that vary the pages: up to MaxRoutes docs pages, each with up to
\* MaxSections sections and any tag
InitPipeline ==
    /\ options = DefaultOptions
    /\ plugins = DefaultPlugins
    /\ baseUrl = SLASH
    /\ trailingSlash = "undefined"
    /\ \E n \in 0..MaxRoutes : routesPaths = [k \in 1..n |-> PipelineUrl(k)]
    /\ disk \in [FilesOf(routesPaths, baseUrl, trailingSlash) ->
                    {Page(n, t) : n \in 0..MaxSections, t \in Tags}]

\* the routes of a classification run, relative to "/"
ClassifyRoutes ==
    { << "4", "0", "4", ".", "h", "t", "m", "l" >>,
      << >>,
      << "a", "b", "o", "u", "t" >>,
      << "d", "o", "c", "s" >>,
      << "d", "o", "c", "s", "/", "a" >>,
      << "d", "o", "c", "s", "/", "t", "a", "g", "s" >>,
      << "d", "o", "c", "s", "/", "t", "a", "g", "s", "/", "a" >>,
      << "d", "o", "c", "s", "x" >>,
      << "d", "o", "c", "s", "/", "_", "_", "d", "o", "c", "u", "s", "a", "u", "r", "u", "s", "/", "x" >>,
      << "b", "l", "o", "g" >>,
      << "b", "l", "o", "g", "/", "p" >>,
      << "b", "l", "o", "g", "/", "t", "a", "g", "s" >>,
      << "b", "l", "o", "g", "/", "t", "a", "g", "s", "/", "a" >>,
      << "_", "_", "d", "o", "c", "u", "s", "a", "u", "r", "u", "s", "/", "d", "e", "b", "u", "g" >>,
      << "e", "n", "/", "d", "o", "c", "s", "/", "a" >> }

EN_BASE == << "/", "e", "n", "/" >>
API == << "/", "a", "p", "i", "/" >>

\* plugin registries: the classic preset; docs-only mode (docs at /); a
\* second docs instance at /api/; a site without a blog plugin
PluginSetups ==
    { DefaultPlugins,
      << DocsPlugin("default", SLASH), BlogPlugin("default", BLOG),
         PagesPlugin("default", SLASH) >>,
      << DocsPlugin("api", API), DocsPlugin("default", SLASH \o DOCS),
         BlogPlugin("default", SLASH \o BLOG), PagesPlugin("default", SLASH) >>,
      << DocsPlugin("default", DOCS), PagesPlugin("default", SLASH) >> }

\* runs that vary the routes, the enabled content types and the plugins;
\* every page has one section
InitClassify ==
    /\ \E d \in BOOLEAN, b \in BOOLEAN, p \in BOOLEAN :
          options = [DefaultOptions EXCEPT
                        !.indexDocs = d, !.indexBlog = b, !.indexPages = p]
    /\ plugins \in PluginSetups
    /\ baseUrl \in {SLASH, EN_BASE}
    /\ trailingSlash = "false"
    /\ \E n \in 1..MaxClassifyRoutes :
          routesPaths \in [1..n -> {SLASH \o r : r \in ClassifyRoutes}]
    /\ disk = [f \in FilesOf(routesPaths, baseUrl, trailingSlash) |-> Page(1, "en")]

\* a subset of the codes of languageSchema (lines 98-120), alone and in lists
Languages ==
    { Single("en"), Single("fr"), Single("ja"), Single("th"), Single("zh"),
      List(<< "en" >>), List(<< "ja" >>), List(<< "en", "ja" >>),
      List(<< "th", "en" >>), List(<< "en", "fr" >>) }

\* runs that vary the language and the token separator
InitConfig ==
    /\ \E l \in Languages, sep \in BOOLEAN :
          options = [DefaultOptions EXCEPT !.language = l, !.tokenizerSeparator = sep]
    /\ plugins = DefaultPlugins
    /\ baseUrl = SLASH
    /\ trailingSlash = "true"
    /\ routesPaths = << PipelineUrl(1), PipelineUrl(2) >>
    /\ disk = [f \in FilesOf(routesPaths, baseUrl, trailingSlash) |-> Page(1, "en")]

\* runs that vary the ancestor categories of two pages, the indexing depth
\* and the title prefixing
InitCategories ==
    /\ \E depth \in 0..MaxDepth, include \in BOOLEAN :
          options = [DefaultOptions EXCEPT
                        !.indexDocSidebarParentCategories = depth,
                        !.includeParentCategoriesInPageTitle = include]
    /\ plugins = DefaultPlugins
    /\ baseUrl = SLASH
    /\ trailingSlash = "undefined"
    /\ routesPaths = << PipelineUrl(1), PipelineUrl(2) >>
    /\ disk \in [FilesOf(routesPaths, baseUrl, trailingSlash) ->
                    {PageWith(1, "en", c) : c \in CategoryPaths}]

\* runs that vary the tags of up to MaxTagRoutes pages of one section each
InitTags ==
    /\ options = DefaultOptions
    /\ plugins = DefaultPlugins
    /\ baseUrl = SLASH
    /\ trailingSlash = "undefined"
    /\ \E n \in 1..MaxTagRoutes : routesPaths = [k \in 1..n |-> PipelineUrl(k)]
    /\ disk \in [FilesOf(routesPaths, baseUrl, trailingSlash) ->
                    {Page(1, t) : t \in Tags}]

\* runs under the base url /en/ in which any of the urls may lack the base
\* url: the k-th url is /en/docs/<k> or /docs/<k>
InitBaseUrl ==
    /\ options = DefaultOptions
    /\ plugins = DefaultPlugins
    /\ baseUrl = EN_BASE
    /\ trailingSlash = "undefined"
    /\ \E n \in 1..MaxRoutes : \E foreign \in SUBSET (1..n) :
          routesPaths = [k \in 1..n |->
                            IF k \in foreign THEN PipelineUrl(k)
                            ELSE EN_BASE \o Tail(PipelineUrl(k))]
    /\ disk = [f \in FilesOf(routesPaths, baseUrl, trailingSlash) |-> Page(1, "en")]

Init ==
    /\ \/ InitPipeline \/ InitClassify \/ InitConfig \/ InitCategories
       \/ InitTags \/ InitBaseUrl
    /\ language = options.language
    /\ pc = "init"
    /\ data = << >>
    /\ reads = << >>
    /\ results = << >>
    /\ nextDocId = 1
    /\ documents = << >>
    /\ documentsByDocusaurusTag = << >>
    /\ writes = << >>
    /\ written = << >>

----------------------------------------------------------------------------
(* Actions.                                                                *)

env == << options, routesPaths, baseUrl, trailingSlash, plugins, disk >>

\* cmfcmfDocusaurusSearchLocal(context, options), lines 160-272
Construct ==
    /\ pc = "init"
    /\ language' = unwrapLanguage(options.language)
    /\ pc' = IF constructorThrows(options) THEN "configError" ELSE "loaded"
    /\ UNCHANGED << env, data, reads, results, nextDocId, documents,
                    documentsByDocusaurusTag, writes, written >>

\* postBuild up to its first await (lines 316-484): the plugin checks, the
\* classification of every url, and the readFileAsync call of every entry
PostBuild ==
    /\ pc = "loaded"
    /\ IF missingPlugin(options, plugins)
          \/ classifyThrows(routesPaths, baseUrl, options, plugins)
       THEN /\ pc' = "failed"
            /\ UNCHANGED << data, reads, results >>
       ELSE /\ pc' = "reading"
            /\ data' = classifyAll(routesPaths, baseUrl, trailingSlash,
                                   options, plugins)
            /\ reads' = [i \in DOMAIN data' |-> "pending"]
            /\ results' = [i \in DOMAIN data' |-> << >>]
    /\ UNCHANGED << env, language, nextDocId, documents,
                    documentsByDocusaurusTag, writes, written >>

\* the i-th read succeeds and its callback resumes (lines 484-500): it runs
\* to its return without suspending
ReadComplete(i) ==
    /\ pc \in {"reading", "failed"}
    /\ reads[i] = "pending"
    /\ reads' = [reads EXCEPT ![i] = "done"]
    /\ results' = [results EXCEPT
                     ![i] = sectionsToDocuments(data[i], disk[data[i].file], nextDocId)]
    /\ nextDocId' = nextDocId + Len(html2text(disk[data[i].file]))
    /\ UNCHANGED << env, language, pc, data, documents,
                    documentsByDocusaurusTag, writes, written >>

\* the i-th read fails: its promise rejects, so Promise.all rejects and the
\* await at line 481 throws out of postBuild; the other reads go on
ReadFail(i) ==
    /\ pc \in {"reading", "failed"}
    /\ reads[i] = "pending"
    /\ reads' = [reads EXCEPT ![i] = "failed"]
    /\ pc' = "failed"
    /\ UNCHANGED << env, language, data, results, nextDocId, documents,
                    documentsByDocusaurusTag, writes, written >>

\* a variant that goes on once every read has settled, failed or not
BuildIndexes_AllSettled ==
    /\ pc \in {"reading", "failed"}
    /\ writes = << >>
    /\ \A i \in DOMAIN reads : reads[i] # "pending"
    /\ LET groups == reduce(flat(results), << >>) IN
       /\ writes' = [g \in DOMAIN groups |->
                       [state |-> "pending", artifact |-> artifactOf(groups[g])]]
       /\ documentsByDocusaurusTag' =
             [g \in DOMAIN groups |-> << groups[g][1], afterIndex(groups[g][2]) >>]
       /\ documents' = afterIndex(flat(results))
    /\ pc' = "writing"
    /\ UNCHANGED << env, language, data, reads, results, nextDocId, written >>

\* every read succeeded: postBuild resumes (lines 503-617), flattens and
\* groups the documents, builds every index and issues every write
BuildIndexes ==
    /\ pc = "reading"
    /\ \A i \in DOMAIN reads : reads[i] = "done"
    /\ LET groups == reduce(flat(results), << >>) IN
       /\ writes' = [g \in DOMAIN groups |->
                       [state |-> "pending", artifact |-> artifactOf(groups[g])]]
       /\ documentsByDocusaurusTag' =
             [g \in DOMAIN groups |-> << groups[g][1], afterIndex(groups[g][2]) >>]
       /\ documents' = afterIndex(flat(results))
    /\ pc' = "writing"
    /\ UNCHANGED << env, language, data, reads, results, nextDocId, written >>

\* the write of the g-th group succeeds (lines 580-619)
WriteComplete(g) ==
    /\ pc \in {"writing", "failed"}
    /\ writes[g].state = "pending"
    /\ writes' = [writes EXCEPT ![g].state = "done"]
    /\ written' = Append(written, writes[g].artifact)
    /\ UNCHANGED << env, language, pc, data, reads, results, nextDocId,
                    documents, documentsByDocusaurusTag >>

\* the write of the g-th group fails: Promise.all rejects and the await at
\* line 520 throws out of postBuild; the other writes go on
WriteFail(g) ==
    /\ pc \in {"writing", "failed"}
    /\ writes[g].state = "pending"
    /\ writes' = [writes EXCEPT ![g].state = "failed"]
    /\ pc' = "failed"
    /\ UNCHANGED << env, language, data, reads, results, nextDocId,
                    documents, documentsByDocusaurusTag, written >>

\* a variant that returns without waiting for the writes
Finish_NoWait ==
    /\ pc = "writing"
    /\ pc' = "done"
    /\ UNCHANGED << env, language, data, reads, results, nextDocId,
                    documents, documentsByDocusaurusTag, writes, written >>

\* every write succeeded: postBuild returns (line 623)
Finish ==
    /\ pc = "writing"
    /\ \A g \in DOMAIN writes : writes[g].state = "done"
    /\ pc' = "done"
    /\ UNCHANGED << env, language, data, reads, results, nextDocId,
                    documents, documentsByDocusaurusTag, writes, written >>

Next ==
    \/ Construct
    \/ PostBuild
    \/ \E i \in DOMAIN reads : ReadComplete(i)
    \/ \E i \in DOMAIN reads : ReadFail(i)
    \/ BuildIndexes
    \/ \E g \in DOMAIN writes : WriteComplete(g)
    \/ \E g \in DOMAIN writes : WriteFail(g)
    \/ Finish

Spec == Init /\ [][Next]_vars

----------------------------------------------------------------------------
(* Properties.                                                             *)

Ids(docs) == {docs[k].id : k \in DOMAIN docs}

Distinct(docs) ==
    \A k1, k2 \in DOMAIN docs : k1 # k2 => docs[k1].id # docs[k2].id

\* the documents of every group, group after group
RECURSIVE groupedDocuments(_)
groupedDocuments(groups) ==
    IF groups = << >> THEN << >>
    ELSE Head(groups)[2] \o groupedDocuments(Tail(groups))

built == pc \in {"writing", "done"} \/ writes # << >>

\* C1: at every moment of a run the ids allocated so far are pairwise
\* distinct and are exactly 1..N for the N documents produced so far; once
\* the documents are flattened and grouped, the same holds of the document
\* list and of the documents of all groups taken together.
C1_IdsFormRange ==
    /\ Distinct(flat(results))
    /\ Ids(flat(results)) = 1..Len(flat(results))
    /\ nextDocId = Len(flat(results)) + 1
    /\ built =>
        /\ Distinct(documents)
        /\ Ids(documents) = 1..Len(documents)
        /\ Distinct(groupedDocuments(documentsByDocusaurusTag))
        /\ Ids(groupedDocuments(documentsByDocusaurusTag)) = 1..Len(documents)

\* C1 witness: a finished run with documents in two groups whose reads
\* completed out of route order.
C1_Witness ==
    /\ pc = "done"
    /\ Len(documentsByDocusaurusTag) = 2
    /\ Len(documents) >= 3
    /\ documents[1].id > documents[Len(documents)].id

\* C2: the id of a document depends only on its place in the route order:
\* the n-th document in route order has the id n that a run whose reads
\* complete in route order gives it, so that every completion order gives
\* every document the same id.
C2_IdsKeyedToRouteOrder ==
    pc = "done" => \A n \in DOMAIN documents : documents[n].id = n

\* C3: in every artifact written the summaries stand in strictly ascending
\* id order.
C3_SummariesAscending ==
    \A a \in DOMAIN written :
        \A k \in 1..(Len(written[a].documents) - 1) :
            written[a].documents[k].id < written[a].documents[k + 1].id

\* C4: in every artifact, issued or written, the references of the index are
\* exactly the string forms of the ids of the summaries, every reference
\* resolves to exactly one summary and every summary is referenced exactly
\* once.
C4_ReferentialIntegrity ==
    \A w \in DOMAIN writes :
        LET a == writes[w].artifact IN
        /\ {a.index[k].id : k \in DOMAIN a.index}
              = {toString(a.documents[k].id) : k \in DOMAIN a.documents}
        /\ \A r \in DOMAIN a.index :
              Cardinality({k \in DOMAIN a.documents :
                              toString(a.documents[k].id) = a.index[r].id}) = 1
        /\ \A k \in DOMAIN a.documents :
              Cardinality({r \in DOMAIN a.index :
                              a.index[r].id = toString(a.documents[k].id)}) = 1

\* C4 witness: a written artifact of two or more documents whose ids differ
\* from their positions in the artifact.
C4_Witness ==
    \E a \in DOMAIN written :
        /\ Len(written[a].documents) >= 2
        /\ \E k \in DOMAIN written[a].documents : written[a].documents[k].id # k

\* C5: the groups have pairwise distinct tags, none is empty, each holds
\* exactly the documents carrying its tag in the order of the document list,
\* and every document of the list stands in exactly one place of one group.
C5_GroupingLossless ==
    LET groups == documentsByDocusaurusTag IN
    /\ \A g1, g2 \in DOMAIN groups : g1 # g2 => groups[g1][1] # groups[g2][1]
    /\ \A g \in DOMAIN groups :
          LET tagged(d) == d.docusaurusTag = groups[g][1] IN
          /\ groups[g][2] # << >>
          /\ groups[g][2] = SelectSeq(documents, tagged)
    /\ \A n \in DOMAIN documents :
          Cardinality({gk \in {<< g, k >> : g \in DOMAIN groups, k \in 1..Len(documents)} :
                          /\ gk[2] \in DOMAIN groups[gk[1]][2]
                          /\ groups[gk[1]][2][gk[2]] = documents[n]}) = 1

\* C5 witness: two groups, one of which takes documents of two pages that
\* are separated in the document list by a document of the other group.
C5_Witness ==
    /\ built
    /\ Len(documentsByDocusaurusTag) = 2
    /\ \E n \in DOMAIN documents :
          /\ n + 2 \in DOMAIN documents
          /\ documents[n].docusaurusTag = documents[n + 2].docusaurusTag
          /\ documents[n].docusaurusTag # documents[n + 1].docusaurusTag

\* the routes the claim C6 calls excluded: the error page, the tag listing
\* of a registered docs or blog plugin and what lies under it, and the
\* debug pages under __docusaurus, at the root or under a plugin's base path
excludedRoute(route) ==
    \/ route = ERROR_PAGE
    \/ urlMatchesPrefix(route, DOCUSAURUS) = "true"
    \/ \E i \in DOMAIN plugins :
          \/ /\ plugins[i].name \in {DOCS_PLUGIN, BLOG_PLUGIN}
             /\ urlMatchesPrefix(route,
                   trimLeadingSlash(basePathOf(plugins[i]) \o SLASH
                                    \o tagsPathOf(plugins[i]))) = "true"
          \/ urlMatchesPrefix(route,
                trimLeadingSlash(basePathOf(plugins[i]) \o SLASH
                                 \o DOCUSAURUS)) = "true"

\* C6: every url is emitted with at most one content type, and no excluded
\* route is emitted at all, so no document comes from one.
C6_ExcludedNeverEmitted ==
    /\ \A i, j \in DOMAIN data :
          data[i].url = data[j].url => data[i].type = data[j].type
    /\ \A i \in DOMAIN data : ~excludedRoute(substring(data[i].url, Len(baseUrl)))
    /\ \A n \in DOMAIN documents :
          ~excludedRoute(substring(documents[n].pageRoute, Len(baseUrl)))

TagsOf(docs) == {docs[k].docusaurusTag : k \in DOMAIN docs}

\* C7: a written file is always search-index-<tag>.json for a tag of a
\* produced document, no file is written twice, it lists exactly the
\* documents of its tag, and when postBuild returns there is one file for
\* every tag that occurs among the documents.
C7_OneFilePerTag ==
    /\ \A a \in DOMAIN written :
          /\ written[a].file[1] = "search-index-"
          /\ written[a].file[3] = ".json"
          /\ written[a].file[2] \in TagsOf(documents)
          /\ Distinct(written[a].documents)
          /\ Ids(written[a].documents)
                = {documents[n].id : n \in {m \in DOMAIN documents :
                        documents[m].docusaurusTag = written[a].file[2]}}
    /\ \A a1, a2 \in DOMAIN written : a1 # a2 => written[a1].file # written[a2].file
    /\ pc = "done" =>
          {written[a].file[2] : a \in DOMAIN written} = TagsOf(documents)

\* C7 witness: a finished run that wrote two files, the file of the second
\* group first.
C7_Witness ==
    /\ pc = "done"
    /\ Len(written) = 2
    /\ written[1].file[2] = documentsByDocusaurusTag[2][1]

\* C8: once a read has failed, postBuild has failed, no write has been
\* issued and no artifact exists, whatever the other reads did.
C8_ReadFailureIsFatal ==
    (\E i \in DOMAIN reads : reads[i] = "failed") =>
        /\ pc = "failed"
        /\ writes = << >>
        /\ written = << >>

\* C8 witness: a read has failed after another read had completed and
\* produced documents, and every read has settled.
C8_Witness ==
    /\ \E i, j \in DOMAIN reads :
          reads[i] = "failed" /\ reads[j] = "done" /\ results[j] # << >>
    /\ \A i \in DOMAIN reads : reads[i] # "pending"

\* C9: once the constructor has run with a token separator and a language
\* option that names ja or th, alone or in a list, it has thrown.
C9_SeparatorRejected ==
    ( /\ pc # "init"
      /\ options.tokenizerSeparator
      /\ \E k \in DOMAIN options.language.codes :
            options.language.codes[k] \in {"ja", "th"} )
    => pc = "configError"

\* C10: a page with k sections yields k documents whose ids are m, m+1, ...,
\* m+k-1 in section order, and no document of another page has an id from m
\* to m+k-1.
C10_PageIdsConsecutive ==
    \A i \in DOMAIN reads :
        reads[i] = "done" =>
            /\ Len(results[i]) = Len(disk[data[i].file].sections)
            /\ \A k \in DOMAIN results[i] :
                  /\ results[i][k].id = results[i][1].id + k - 1
                  /\ results[i][k].sectionRoute
                        = data[i].url \o disk[data[i].file].sections[k].hash
            /\ \A j \in DOMAIN reads \ {i} :
                  \A k \in DOMAIN results[j] :
                      results[i] # << >> =>
                          \/ results[j][k].id < results[i][1].id
                          \/ results[j][k].id > results[i][Len(results[i])].id

\* C10 witness: a page of two sections whose read completed after the read
\* of a later page, which produced documents too.
C10_Witness ==
    \E i, j \in DOMAIN reads :
        /\ i < j
        /\ reads[i] = "done" /\ reads[j] = "done"
        /\ Len(results[i]) = 2
        /\ results[j] # << >>
        /\ results[j][1].id < results[i][1].id

\* postBuild has run its classification
classified == pc \in {"reading", "writing", "done", "failed"}

\* the routes the classifier hands to urlMatchesPrefix
classifierRoutes ==
    {substring(routesPaths[i], Len(baseUrl)) :
        i \in {j \in DOMAIN routesPaths : startsWith(routesPaths[j], baseUrl)}}

\* the plugins of the content types that are enabled
enabledPlugins ==
    {i \in DOMAIN plugins :
        \/ options.indexDocs /\ plugins[i].name = DOCS_PLUGIN
        \/ options.indexBlog /\ plugins[i].name = BLOG_PLUGIN
        \/ options.indexPages /\ plugins[i].name = PAGES_PLUGIN}

\* the prefixes the classifier hands to urlMatchesPrefix: of every plugin of
\* an enabled type the base path and the debug path, of a docs or blog
\* plugin the tags path too
classifierPrefixes ==
    UNION { {basePathOf(plugins[i]),
             trimLeadingSlash(basePathOf(plugins[i]) \o SLASH \o DOCUSAURUS)}
            \cup (IF plugins[i].name \in {DOCS_PLUGIN, BLOG_PLUGIN}
                  THEN {trimLeadingSlash(basePathOf(plugins[i]) \o SLASH
                                         \o tagsPathOf(plugins[i]))}
                  ELSE {})
          : i \in enabledPlugins }

\* the base paths of the plugins that an entry of the given type matched
basePathsOf(type) ==
    LET name == CASE type = "docs" -> DOCS_PLUGIN [] type = "blog" -> BLOG_PLUGIN
                  [] type = "page" -> PAGES_PLUGIN
    IN {basePathOf(plugins[i]) : i \in {j \in DOMAIN plugins : plugins[j].name = name}}

\* C11 as stated: for every route and prefix of the classification,
\* urlMatchesPrefix returns true only if the route equals the prefix or
\* starts with the prefix followed by "/".
C11_MatchOnlyEqualOrUnder ==
    classified =>
        \A route \in classifierRoutes, prefix \in classifierPrefixes :
            urlMatchesPrefix(route, prefix) = "true" =>
                route = prefix \/ startsWith(route, prefix \o SLASH)

\* C11 amended: urlMatchesPrefix returns true only if the prefix is empty
\* (the prefix of a base path "/"), or the route equals the prefix, or the
\* route starts with the prefix followed by "/"; and every emitted route
\* stands in that relation to the base path of a plugin of its type.
C11_MatchOnlyEmptyEqualOrUnder ==
    classified =>
        /\ \A route \in classifierRoutes, prefix \in classifierPrefixes :
              urlMatchesPrefix(route, prefix) = "true" =>
                  \/ prefix = << >>
                  \/ route = prefix
                  \/ startsWith(route, prefix \o SLASH)
        /\ \A i \in DOMAIN data :
              LET route == substring(data[i].url, Len(baseUrl)) IN
              \E b \in basePathsOf(data[i].type) :
                  b = << >> \/ route = b \/ startsWith(route, b \o SLASH)

\* C11 witness: the route "docsx" was classified against the docs prefix
\* "docs" with docs indexing enabled, and was not emitted as docs.
C11_Witness ==
    /\ classified
    /\ options.indexDocs
    /\ DOCS \o << "x" >> \in classifierRoutes
    /\ DOCS \in classifierPrefixes
    /\ \A i \in DOMAIN data : data[i].type # "docs"

\* C12: while postBuild waits on the writes, and after it has returned,
\* every group has its write started, with the artifact of that group; and
\* when postBuild has returned no write is pending or failed and the
\* artifact of every group is among the files written.
C12_AllWritesJoined ==
    /\ pc \in {"writing", "done"} =>
          /\ DOMAIN writes = DOMAIN documentsByDocusaurusTag
          /\ \A g \in DOMAIN writes :
                writes[g].artifact = artifactOf(documentsByDocusaurusTag[g])
    /\ pc = "done" =>
          /\ \A g \in DOMAIN writes : writes[g].state = "done"
          /\ \A g \in DOMAIN writes :
                \E a \in DOMAIN written : written[a] = writes[g].artifact
          /\ Len(written) = Len(documentsByDocusaurusTag)

\* C12 witness: postBuild has returned after the writes of two groups.
C12_Witness ==
    /\ pc = "done"
    /\ Len(documentsByDocusaurusTag) = 2
    /\ Len(written) = 2

\* the page on disk that a document was made from
pageOf(doc) == disk[fileOf(substring(doc.pageRoute, Len(baseUrl)), trailingSlash)]

\* C13: for every document registered in an index, with N the indexing depth
\* and the ancestor path as the page gives it: if N > 0 and the path has
\* L > 0 names the field is the last min(N, L) names from the leaf towards
\* the root with one space between neighbours; if N = 0 or the page gives
\* no path the field has no value; an empty path with N > 0 gives the empty
\* string; and the document keeps the path in root-to-leaf order, which the
\* display title of its summary shows.
C13_AncestorField ==
    \A w \in DOMAIN writes :
        \A k \in DOMAIN writes[w].artifact.index :
            LET doc == documentsByDocusaurusTag[w][2][k]
                cats == pageOf(doc).docSidebarParentCategories
                N == options.indexDocSidebarParentCategories
                field == writes[w].artifact.index[k].sidebarParentCategories
                title == writes[w].artifact.documents[k].pageTitle
            IN
            /\ (N > 0 /\ cats.defined /\ cats.value # << >>) =>
                  LET L == Len(cats.value)
                      m == IF N < L THEN N ELSE L
                  IN /\ field.defined
                     /\ Len(field.value) = 2 * m - 1
                     /\ \A j \in 1..m : field.value[2 * j - 1] = cats.value[L - j + 1]
                     /\ \A j \in 1..(m - 1) : field.value[2 * j] = " "
            /\ (N = 0 \/ ~cats.defined) => field = Undefined
            /\ (N > 0 /\ cats = Defined(<< >>)) => field = Defined(<< >>)
            /\ (N = 2 /\ cats = Defined(<< "Guides", "Setup", "Install" >>)) =>
                  field = Defined(<< "Install", " ", "Setup" >>)
            /\ doc.docSidebarParentCategories = cats
            /\ \A n \in DOMAIN documents :
                  documents[n].docSidebarParentCategories
                      = pageOf(documents[n]).docSidebarParentCategories
            /\ IF /\ options.includeParentCategoriesInPageTitle
                  /\ cats.defined /\ cats.value # << >>
               THEN /\ Len(title) = 2 * Len(cats.value) + 1
                    /\ \A j \in DOMAIN cats.value : title[2 * j - 1] = cats.value[j]
                    /\ title[Len(title)] = doc.pageTitle
               ELSE title = << doc.pageTitle >>

\* C13 witness: an artifact was written whose index holds "Install Setup"
\* for a document with the path Guides, Setup, Install at depth 2, beside a
\* document without a path, with the titles prefixed.
C13_Witness ==
    /\ options.indexDocSidebarParentCategories = 2
    /\ options.includeParentCategoriesInPageTitle
    /\ \E a \in DOMAIN written :
          /\ \E k \in DOMAIN written[a].index :
                written[a].index[k].sidebarParentCategories
                    = Defined(<< "Install", " ", "Setup" >>)
          /\ \E k \in DOMAIN written[a].index :
                written[a].index[k].sidebarParentCategories = Undefined

\* C14: once postBuild has started on a route list in which some url does
\* not start with the base url, wherever it stands, postBuild has failed,
\* no route has been classified into data, no file read has been issued, no
\* id has been allocated and no write has been issued or completed.
C14_ForeignRouteIsFatal ==
    ( /\ classified
      /\ \E i \in DOMAIN routesPaths : ~startsWith(routesPaths[i], baseUrl) )
    => /\ pc = "failed"
       /\ data = << >>
       /\ reads = << >>
       /\ results = << >>
       /\ nextDocId = 1
       /\ writes = << >>
       /\ written = << >>

\* C14 witness: postBuild has failed on a list whose last url lacks the base
\* url while its first url has it and is a docs route.
C14_Witness ==
    /\ pc = "failed"
    /\ Len(routesPaths) >= 2
    /\ classify(routesPaths[1], baseUrl, options, plugins) = "docs"
    /\ ~startsWith(routesPaths[Len(routesPaths)], baseUrl)
    /\ \A i \in 1..(Len(routesPaths) - 1) : startsWith(routesPaths[i], baseUrl)

============================================================================
